---- MODULE Spec2Model ----
(***************************************************************************)
(* A model of app.py, the flamegraph profiling demo: the naive and the     *)
(* memoized Fibonacci, the prime sieve, the matrix product, the JSON       *)
(* round trip, and the driver (mixed_workload, main).                      *)
(*                                                                         *)
(* Python lists are modelled with the source's 0-based indices as          *)
(* functions over 0..n-1 where the code indexes them (the sieve, the       *)
(* matrices) and as sequences where the code only appends or iterates.     *)
(***************************************************************************)
EXTENDS Integers, Sequences, FiniteSets, TLC

\* ------------------------------------------------------------------ bounds
\* Largest argument given to the two Fibonacci routines by the call harness.
MaxN == 30
\* Largest limit given to compute_primes by the call harness.
MaxLimit == 30

\* Largest size given to matrix_multiplication when it is called on its own.
MaxSize == 2

\* Number of user records json_processing builds (1000 in the source).
NumUsers == 2
\* Number of scores in each record (10 in the source).
NumScores == 1
\* for _ in range(10): the serialize-then-parse cycles of json_processing
RoundTrips == 10

\* iterations = 3 in main
Iterations == 3
\* for i in range(5) in mixed_workload
FibCalls == 5
\* fibonacci_recursive(20 + i) in mixed_workload
FibBase == 20
\* compute_primes(10000) in mixed_workload
PrimeLimit == 10000
\* Size given to matrix_multiplication by mixed_workload (50 in the source).
WorkloadMatrixSize == 1
\* Largest value time.time() returns, in clock units.
MaxClock == 1

VARIABLES
    cache,      \* the lru_cache of fibonacci_cached: a function key -> value
    last,       \* the last completed call: [fn, arg, ret, runs]
    rng_draws,  \* the random module's shared generator: values drawn so far
    matrix_a,   \* matrix_multiplication: the first generated matrix
    matrix_b,   \* matrix_multiplication: the second generated matrix
    jpc,        \* json_processing: "start", "loop" or "done"
    data,       \* json_processing: the record collection
    json_str,   \* json_processing: the text of the last json.dumps
    parsed,     \* json_processing: the value of the last json.loads
    cycles,     \* json_processing: iterations of the loop completed
    pc,         \* the driver: the statement main or mixed_workload is at
    main_locals,\* the driver: the local variables of main that are bound
    mw_locals,  \* the driver: the local variables of mixed_workload
    trace       \* the driver: the lines printed and the calls made, in order

matrixVars == <<matrix_a, matrix_b>>
jsonVars == <<jpc, data, json_str, parsed, cycles>>
driverVars == <<pc, main_locals, mw_locals, trace>>
vars == <<cache, last, rng_draws, matrix_a, matrix_b, jpc, data, json_str, parsed, cycles,
          pc, main_locals, mw_locals, trace>>

EmptyCache == [k \in {} |-> 0]
\* A frame with no local variable bound, and the binding of one.
NoLocals == [k \in {} |-> 0]
Bind(frame, name, value) == (name :> value) @@ frame
NoCall == [fn |-> "none", arg |-> 0, ret |-> 0, runs |-> 0]

\* --------------------------------------------------- fibonacci_recursive
\* fibonacci_recursive with the base case F(0) = F(1) = 1.
RECURSIVE fibonacci_recursive_base1(_)
fibonacci_recursive_base1(n) ==
    IF n <= 1 THEN 1
    ELSE fibonacci_recursive_base1(n - 1) + fibonacci_recursive_base1(n - 2)

RECURSIVE fibonacci_recursive(_)
fibonacci_recursive(n) ==
    IF n <= 1 THEN n
    ELSE fibonacci_recursive(n - 1) + fibonacci_recursive(n - 2)

\* The values of fibonacci_recursive over the harness's arguments, tabulated
\* once (the routine is pure, so a call is a lookup of its value).
FibRecursiveValues == [n \in 0..MaxN |-> fibonacci_recursive(n)]

\* ------------------------------------------------------ fibonacci_cached
\* fibonacci_cached under a bounded cache that keeps the three newest keys.
RECURSIVE fibonacci_cached_bounded(_, _)
fibonacci_cached_bounded(n, c) ==
    IF n \in DOMAIN c
    THEN [ret |-> c[n], cache |-> c, runs |-> 0]
    ELSE IF n <= 1
    THEN [ret |-> n, cache |-> (n :> n) @@ c, runs |-> 1]
    ELSE LET r1 == fibonacci_cached_bounded(n - 1, c)
             r2 == fibonacci_cached_bounded(n - 2, r1.cache)
             v  == r1.ret + r2.ret
             c2 == (n :> v) @@ r2.cache
         IN  [ret |-> v, cache |-> [k \in {j \in DOMAIN c2 : j > n - 3} |-> c2[k]],
              runs |-> 1 + r1.runs + r2.runs]

\* fibonacci_cached with a memo that does not store the base cases.
RECURSIVE fibonacci_cached_nobase(_, _)
fibonacci_cached_nobase(n, c) ==
    IF n \in DOMAIN c
    THEN [ret |-> c[n], cache |-> c, runs |-> 0]
    ELSE IF n <= 1
    THEN [ret |-> n, cache |-> c, runs |-> 1]
    ELSE LET r1 == fibonacci_cached_nobase(n - 1, c)
             r2 == fibonacci_cached_nobase(n - 2, r1.cache)
             v  == r1.ret + r2.ret
         IN  [ret |-> v, cache |-> (n :> v) @@ r2.cache,
              runs |-> 1 + r1.runs + r2.runs]

\* One call of the lru_cache(maxsize=None) wrapper on cache c: a hit returns
\* the stored value; a miss runs the body, which recurses through the
\* wrapper, and then stores the result under n. runs counts the executions
\* of the body (the wrapper's misses) during the call.
RECURSIVE fibonacci_cached(_, _)
fibonacci_cached(n, c) ==
    IF n \in DOMAIN c
    THEN [ret |-> c[n], cache |-> c, runs |-> 0]
    ELSE IF n <= 1
    THEN [ret |-> n, cache |-> (n :> n) @@ c, runs |-> 1]
    ELSE LET r1 == fibonacci_cached(n - 1, c)
             r2 == fibonacci_cached(n - 2, r1.cache)
             v  == r1.ret + r2.ret
         IN  [ret |-> v, cache |-> (n :> v) @@ r2.cache,
              runs |-> 1 + r1.runs + r2.runs]

\* --------------------------------------------------------- compute_primes
\* int(math.sqrt(limit)): the floor of the square root (exact for the small
\* integers used here).
Isqrt(n) == CHOOSE r \in 0..n : r * r <= n /\ (r + 1) * (r + 1) > n

\* for j in range(i * i, limit + 1, i): sieve[j] = False
ClearMultiples(sieve, i, limit) ==
    [j \in DOMAIN sieve |->
        IF j >= i * i /\ j <= limit /\ (j - i * i) % i = 0
        THEN FALSE ELSE sieve[j]]

\* for i in range(2, int(math.sqrt(limit)) + 1): if sieve[i]: ...
RECURSIVE SieveLoop(_, _, _)
SieveLoop(sieve, i, limit) ==
    IF i >= Isqrt(limit) + 1 THEN sieve
    ELSE IF sieve[i] THEN SieveLoop(ClearMultiples(sieve, i, limit), i + 1, limit)
    ELSE SieveLoop(sieve, i + 1, limit)

\* [i for i, is_prime in enumerate(sieve) if is_prime], ascending
\* over the indices lo..hi, the lower half before the upper half
RECURSIVE Enumerate(_, _, _)
Enumerate(sieve, lo, hi) ==
    IF lo > hi THEN <<>>
    ELSE IF lo = hi THEN (IF sieve[lo] THEN <<lo>> ELSE <<>>)
    ELSE LET mid == (lo + hi) \div 2
         IN  Enumerate(sieve, lo, mid) \o Enumerate(sieve, mid + 1, hi)

\* A call of compute_primes: [raised, value]. sieve = [True] * (limit + 1)
\* has the indices 0..limit; the assignments sieve[0] = sieve[1] = False
\* raise IndexError when an index is not one of them.
compute_primes(limit) ==
    LET sieve0 == [j \in 0..limit |-> TRUE]
    IN  IF 0 \notin DOMAIN sieve0 \/ 1 \notin DOMAIN sieve0
        THEN [raised |-> TRUE, error |-> "IndexError", value |-> <<>>]
        ELSE LET sieve1 == [sieve0 EXCEPT ![0] = FALSE, ![1] = FALSE]
                 sieve2 == SieveLoop(sieve1, 2, limit)
             IN  [raised |-> FALSE, error |-> "",
                  value |-> Enumerate(sieve2, 0, limit)]

\* -------------------------------------------------- matrix_multiplication
\* The values random.random() can return, as numerators over 2 (0 and 1/2):
\* two representatives of [0, 1). The entries of a product are then
\* numerators over 4. Floating-point rounding is not modelled.
RandVals == {0, 1}

\* The calls of random.random() one call of the routine makes: each takes
\* the next value of the module's generator, which every caller shares.
MatrixDraws(size) == 2 * size * size

\* [[random.random() for _ in range(size)] for _ in range(size)]
RandomMatrices(size) == [0..(size - 1) -> [0..(size - 1) -> RandVals]]

\* for k in range(size): result[i][j] += matrix_a[i][k] * matrix_b[j][k]
RECURSIVE InnerLoopTransposed(_, _, _, _, _, _, _)
InnerLoopTransposed(a, b, i, j, k, size, acc) ==
    IF k >= size THEN acc
    ELSE InnerLoopTransposed(a, b, i, j, k + 1, size, acc + a[i][k] * b[j][k])

\* for k in range(size): result[i][j] += matrix_a[i][k] * matrix_b[k][j]
RECURSIVE InnerLoop(_, _, _, _, _, _, _)
InnerLoop(a, b, i, j, k, size, acc) ==
    IF k >= size THEN acc
    ELSE InnerLoop(a, b, i, j, k + 1, size, acc + a[i][k] * b[k][j])

\* The routine on the drawn matrices a and b: result starts as size rows of
\* size zeros, and the loops over i and j accumulate into each cell.
matrix_multiplication(size, a, b) ==
    LET result0 == [i \in 0..(size - 1) |-> [j \in 0..(size - 1) |-> 0]]
    IN  [i \in 0..(size - 1) |->
            [j \in 0..(size - 1) |->
                InnerLoop(a, b, i, j, 0, size, result0[i][j])]]

\* -------------------------------------------------------- json_processing
\* Python values as tagged records: an int, a str (a sequence of characters),
\* a list (a sequence of values), a dict (its key/value pairs in insertion
\* order, keys being character sequences). Text is a sequence of characters.
PyNone == [t |-> "none", v |-> 0]
PyInt(i) == [t |-> "int", v |-> i]
PyStr(chars) == [t |-> "str", v |-> chars]
PyList(items) == [t |-> "list", v |-> items]
PyDict(pairs) == [t |-> "dict", v |-> pairs]

\* d[key]
Lookup(d, key) ==
    d.v[CHOOSE k \in 1..Len(d.v) : d.v[k][1] = key][2]

DigitChars == <<"0", "1", "2", "3", "4", "5", "6", "7", "8", "9">>
IsDigit(c) == \E d \in 1..10 : DigitChars[d] = c
DigitValue(c) == (CHOOSE d \in 1..10 : DigitChars[d] = c) - 1

\* The decimal text of an int with its digits in the wrong order.
RECURSIVE IntToStrReversed(_)
IntToStrReversed(i) ==
    IF i < 0 THEN <<"-">> \o IntToStrReversed(0 - i)
    ELSE IF i < 10 THEN <<DigitChars[i + 1]>>
    ELSE <<DigitChars[(i % 10) + 1]>> \o IntToStrReversed(i \div 10)

\* The decimal text of an int: what an f-string and json.dumps write for it.
RECURSIVE IntToStr(_)
IntToStr(i) ==
    IF i < 0 THEN <<"-">> \o IntToStr(0 - i)
    ELSE IF i < 10 THEN <<DigitChars[i + 1]>>
    ELSE IntToStr(i \div 10) \o <<DigitChars[(i % 10) + 1]>>

\* json.dumps with the default separators ", " and ": ". The strings of the
\* records hold only letters, digits, "_", "@" and ".", which are written
\* as they are between double quotes.
RECURSIVE Dumps(_)
RECURSIVE DumpItems(_, _)
RECURSIVE DumpMembers(_, _)
Dumps(v) ==
    CASE v.t = "int"  -> IntToStr(v.v)
      [] v.t = "str"  -> <<"\"">> \o v.v \o <<"\"">>
      [] v.t = "list" -> <<"[">> \o DumpItems(v.v, 1) \o <<"]">>
      [] v.t = "dict" -> <<"{">> \o DumpMembers(v.v, 1) \o <<"}">>
DumpItems(items, k) ==
    IF k > Len(items) THEN <<>>
    ELSE (IF k > 1 THEN <<",", " ">> ELSE <<>>)
         \o Dumps(items[k]) \o DumpItems(items, k + 1)
DumpMembers(pairs, k) ==
    IF k > Len(pairs) THEN <<>>
    ELSE (IF k > 1 THEN <<",", " ">> ELSE <<>>)
         \o <<"\"">> \o pairs[k][1] \o <<"\"">> \o <<":", " ">>
         \o Dumps(pairs[k][2]) \o DumpMembers(pairs, k + 1)

\* json.loads: a recursive-descent parse of text s from position p. Each
\* parser returns [v, p]: the value read and the position after it.
RECURSIVE SkipSpace(_, _)
SkipSpace(s, p) ==
    IF p <= Len(s) /\ s[p] = " " THEN SkipSpace(s, p + 1) ELSE p

RECURSIVE ParseDigits(_, _, _)
ParseDigits(s, p, acc) ==
    IF p <= Len(s) /\ IsDigit(s[p])
    THEN ParseDigits(s, p + 1, acc * 10 + DigitValue(s[p]))
    ELSE [v |-> acc, p |-> p]

ParseNumber(s, p) ==
    IF s[p] = "-"
    THEN LET r == ParseDigits(s, p + 1, 0) IN [v |-> PyInt(0 - r.v), p |-> r.p]
    ELSE LET r == ParseDigits(s, p, 0) IN [v |-> PyInt(r.v), p |-> r.p]

\* The characters up to the closing quote; p is just after the opening one.
RECURSIVE ParseChars(_, _, _)
ParseChars(s, p, acc) ==
    IF s[p] = "\"" THEN [v |-> acc, p |-> p + 1]
    ELSE ParseChars(s, p + 1, Append(acc, s[p]))

RECURSIVE ParseValue(_, _)
RECURSIVE ParseItems(_, _, _)
RECURSIVE ParseMembers(_, _, _)
ParseValue(s, p) ==
    CASE s[p] = "{"  -> ParseMembers(s, SkipSpace(s, p + 1), <<>>)
      [] s[p] = "["  -> ParseItems(s, SkipSpace(s, p + 1), <<>>)
      [] s[p] = "\"" -> LET r == ParseChars(s, p + 1, <<>>)
                        IN  [v |-> PyStr(r.v), p |-> r.p]
      [] OTHER       -> ParseNumber(s, p)
\* The items of an array; p is at an item or at the closing bracket.
ParseItems(s, p, acc) ==
    IF s[p] = "]" THEN [v |-> PyList(acc), p |-> p + 1]
    ELSE LET r == ParseValue(s, p)
             q == SkipSpace(s, r.p)
         IN  IF s[q] = ","
             THEN ParseItems(s, SkipSpace(s, q + 1), Append(acc, r.v))
             ELSE ParseItems(s, q, Append(acc, r.v))
\* The members of an object; p is at a key or at the closing brace.
ParseMembers(s, p, acc) ==
    IF s[p] = "}" THEN [v |-> PyDict(acc), p |-> p + 1]
    ELSE LET key   == ParseChars(s, p + 1, <<>>)
             colon == SkipSpace(s, key.p)
             r     == ParseValue(s, SkipSpace(s, colon + 1))
             q     == SkipSpace(s, r.p)
             pair  == <<key.v, r.v>>
         IN  IF s[q] = ","
             THEN ParseMembers(s, SkipSpace(s, q + 1), Append(acc, pair))
             ELSE ParseMembers(s, q, Append(acc, pair))

Loads(s) == ParseValue(s, SkipSpace(s, 1)).v

\* The dictionary keys and the literal parts of the f-strings.
KeyUsers == <<"u", "s", "e", "r", "s">>
KeyId == <<"i", "d">>
KeyName == <<"n", "a", "m", "e">>
KeyEmail == <<"e", "m", "a", "i", "l">>
KeyScores == <<"s", "c", "o", "r", "e", "s">>
NamePrefix == <<"U", "s", "e", "r", "_">>
EmailPrefix == <<"u", "s", "e", "r">>
EmailSuffix == <<"@", "e", "x", "a", "m", "p", "l", "e", ".", "c", "o", "m">>

\* Values random.randint(0, 100) can return: the two ends and one between,
\* so that texts of one, two and three digits occur.
ScoreVals == {0, 42, 100}

\* The calls of random.randint one call of json_processing makes, each on
\* the module's shared generator.
JsonDraws == NumUsers * NumScores

\* The draws of one call: for each record, its scores.
ScoreDraws == [1..NumUsers -> [1..NumScores -> ScoreVals]]

\* The record built for i, with the scores drawn for it.
UserRecord(i, scores) ==
    PyDict(<< <<KeyId, PyInt(i)>>,
              <<KeyName, PyStr(NamePrefix \o IntToStr(i))>>,
              <<KeyEmail, PyStr(EmailPrefix \o IntToStr(i) \o EmailSuffix)>>,
              <<KeyScores,
                PyList([k \in 1..NumScores |-> PyInt(scores[k])])>> >>)

\* data = {"users": [... for i in range(NumUsers)]}
BuildData(draws) ==
    PyDict(<< <<KeyUsers,
                PyList([k \in 1..NumUsers |-> UserRecord(k - 1, draws[k])])>> >>)

\* len(data["users"])
RecordCount(d) == Len(Lookup(d, KeyUsers).v)

\* The whole call on the given draws: the loop leaves data as it is, so the
\* value returned is the record count of the collection built.
json_processing(draws) == RecordCount(BuildData(draws))

\* ------------------------------------------------------- the call harness
\* Any caller of the module: the routines are called one at a time, in any
\* order, with any argument within the bounds.
Init ==
    /\ cache = EmptyCache
    /\ last = NoCall
    /\ rng_draws = 0
    /\ matrix_a = <<>>
    /\ matrix_b = <<>>
    /\ jpc = "start"
    /\ data = PyNone
    /\ json_str = <<>>
    /\ parsed = PyNone
    /\ cycles = 0
    /\ pc = "main"
    /\ main_locals = NoLocals
    /\ mw_locals = NoLocals
    /\ trace = <<>>

CallFibRecursive(n) ==
    /\ last' = [fn |-> "fibonacci_recursive", arg |-> n,
                ret |-> FibRecursiveValues[n], runs |-> 0]
    /\ UNCHANGED <<cache, rng_draws, matrixVars, jsonVars, driverVars>>

CallFibCached(n) ==
    LET r == fibonacci_cached(n, cache)
    IN  /\ cache' = r.cache
        /\ last' = [fn |-> "fibonacci_cached", arg |-> n,
                    ret |-> r.ret, runs |-> r.runs]
        /\ UNCHANGED <<rng_draws, matrixVars, jsonVars, driverVars>>

CallComputePrimes(limit) ==
    /\ last' = [fn |-> "compute_primes", arg |-> limit,
                ret |-> compute_primes(limit), runs |-> 0]
    /\ UNCHANGED <<cache, rng_draws, matrixVars, jsonVars, driverVars>>

Next ==
    \/ \E n \in 0..MaxN : CallFibRecursive(n)
    \/ \E n \in 0..MaxN : CallFibCached(n)
    \/ \E limit \in 0..MaxLimit : CallComputePrimes(limit)

Spec == Init /\ [][Next]_vars

\* ------------------------------------- matrix_multiplication, on its own
\* One call of matrix_multiplication in a fresh process, with any positive
\* size within the bound and any draws.
CallMatrixMultiplication(size) ==
    \E a \in RandomMatrices(size), b \in RandomMatrices(size) :
        /\ matrix_a' = a
        /\ matrix_b' = b
        /\ last' = [fn |-> "matrix_multiplication", arg |-> size,
                    ret |-> matrix_multiplication(size, a, b), runs |-> 0]
        /\ rng_draws' = rng_draws + MatrixDraws(size)
        /\ UNCHANGED <<cache, jsonVars, driverVars>>

NextMatrix ==
    /\ last.fn = "none"
    /\ \E size \in 1..MaxSize : CallMatrixMultiplication(size)

SpecMatrix == Init /\ [][NextMatrix]_vars

\* --------------------------------------------- json_processing, on its own
\* One call of json_processing in a fresh process, statement by statement.
JsonBuild ==
    /\ jpc = "start"
    /\ \E draws \in ScoreDraws : data' = BuildData(draws)
    /\ rng_draws' = rng_draws + JsonDraws
    /\ jpc' = "loop"
    /\ UNCHANGED <<cache, last, matrixVars, driverVars, json_str, parsed, cycles>>

\* One iteration of the loop: json_str = json.dumps(data), then
\* parsed = json.loads(json_str).
JsonCycle ==
    /\ jpc = "loop"
    /\ cycles < RoundTrips
    /\ json_str' = Dumps(data)
    /\ parsed' = Loads(json_str')
    /\ cycles' = cycles + 1
    /\ UNCHANGED <<cache, last, rng_draws, matrixVars, driverVars, jpc, data>>

\* return len(data["users"])
JsonReturn ==
    /\ jpc = "loop"
    /\ cycles >= RoundTrips
    /\ last' = [fn |-> "json_processing", arg |-> 0,
                ret |-> RecordCount(data), runs |-> 0]
    /\ jpc' = "done"
    /\ UNCHANGED <<cache, rng_draws, matrixVars, driverVars, data, json_str, parsed, cycles>>

NextJson == JsonBuild \/ JsonCycle \/ JsonReturn

SpecJson == Init /\ [][NextJson]_vars

\* ------------------------------ string_processing, io_simulation, cpu loop
\* results collects the upper-cased, lower-cased, replaced and reversed
\* text, here named by the operation; the routine returns len(results).
string_processing ==
    Len(<<"upper", "lower", "replace", "reversed">>)

\* time.sleep(0.1), then the completion marker.
io_simulation == "IO complete"

\* The sum of sqrt(i) * sin(i) * cos(i): a float whose value is not
\* modelled; main binds it to cpu_result and never reads it.
cpu_intensive_loop == "float"

\* ---------------------------------------------------------------- driver
\* main, and mixed_workload inside it, statement by statement. A printed
\* line is the event <<"print", line, values>>, a call <<"call", fn, arg>>.
Printed(line, values) == <<"print", line, values>>
Called(fn, arg) == <<"call", fn, arg>>

Times == 0..MaxClock

\* The values of fibonacci_recursive at the arguments mixed_workload uses.
WorkloadFibValues ==
    [n \in FibBase..(FibBase + FibCalls - 1) |-> fibonacci_recursive(n)]
\* compute_primes(10000)
WorkloadPrimes == compute_primes(PrimeLimit)

\* The argument of the i-th Fibonacci call, taken one too far.
FibArgumentOffByOne(i) == FibBase + i + 1
\* 20 + i
FibArgument(i) == FibBase + i

\* The Fibonacci call of mixed_workload routed through the memoized routine.
WorkloadFibCallCached(n, c) ==
    LET r == fibonacci_cached(n, c) IN [ret |-> r.ret, cache |-> r.cache]
\* fibonacci_recursive(n), called while the cache is c: [ret, cache].
WorkloadFibCall(n, c) == [ret |-> WorkloadFibValues[n], cache |-> c]

\* range(count) run one iteration too many.
LoopContinuesInclusive(frame, count) ==
    IF "i" \in DOMAIN frame THEN frame["i"] + 1 <= count ELSE 0 < count
\* for i in range(count): whether the loop has a next i, and that i.
LoopContinues(frame, count) ==
    IF "i" \in DOMAIN frame THEN frame["i"] + 1 < count ELSE 0 < count
LoopNext(frame) ==
    IF "i" \in DOMAIN frame THEN frame["i"] + 1 ELSE 0

\* Caches a process can hold when main is called: none of the routines main
\* runs is fibonacci_cached, so the cache is what an importing caller left.
PriorCaches ==
    {EmptyCache} \cup {fibonacci_cached(n, EmptyCache).cache : n \in {1, 10}}

InitMain ==
    /\ cache \in PriorCaches
    /\ last = NoCall
    /\ rng_draws = 0
    /\ matrix_a = <<>>
    /\ matrix_b = <<>>
    /\ jpc = "start"
    /\ data = PyNone
    /\ json_str = <<>>
    /\ parsed = PyNone
    /\ cycles = 0
    /\ pc = "main"
    /\ main_locals = NoLocals
    /\ mw_locals = NoLocals
    /\ trace = <<>>

others == <<last, matrixVars, jsonVars>>

\* lines 142-148
MainBanner ==
    /\ pc = "main"
    /\ main_locals' = Bind(main_locals, "iterations", Iterations)
    /\ trace' = trace \o <<Printed("rule", <<>>), Printed("title", <<>>),
                           Printed("rule", <<>>), Printed("blank", <<>>),
                           Printed("running", <<Iterations>>)>>
    /\ pc' = "main_clock"
    /\ UNCHANGED <<cache, mw_locals, others, rng_draws>>

\* line 150
MainStartClock ==
    /\ pc = "main_clock"
    /\ \E t \in Times : main_locals' = Bind(main_locals, "start_time", t)
    /\ pc' = "main_loop"
    /\ UNCHANGED <<cache, mw_locals, trace, others, rng_draws>>

\* The loop of main run for one i more than range(iterations) has.
MainLoopContinuesInclusive ==
    LoopContinuesInclusive(main_locals, main_locals["iterations"])
\* for i in range(iterations): whether main's loop has a next i
MainLoopContinues == LoopContinues(main_locals, main_locals["iterations"])

\* lines 152-153: the next i and its header, or the end of the loop
MainLoopHead ==
    /\ pc = "main_loop"
    /\ IF MainLoopContinues
       THEN /\ main_locals' = Bind(main_locals, "i", LoopNext(main_locals))
            /\ trace' = Append(trace,
                   Printed("iteration", <<LoopNext(main_locals) + 1,
                                          main_locals["iterations"]>>))
            /\ pc' = "mw_start"
       ELSE /\ pc' = "main_end_clock"
            /\ UNCHANGED <<main_locals, trace>>
    /\ UNCHANGED <<cache, mw_locals, others, rng_draws>>

\* line 100, in the new frame of mixed_workload
MwStart ==
    /\ pc = "mw_start"
    /\ mw_locals' = NoLocals
    /\ trace' = Append(trace, Printed("Starting mixed workload...", <<>>))
    /\ pc' = "mw_fib_marker"
    /\ UNCHANGED <<cache, main_locals, others, rng_draws>>

\* lines 103-104
MwFibMarker ==
    /\ pc = "mw_fib_marker"
    /\ trace' = Append(trace, Printed("Computing Fibonacci numbers...", <<>>))
    /\ mw_locals' = Bind(mw_locals, "fib_results", <<>>)
    /\ pc' = "mw_fib_loop"
    /\ UNCHANGED <<cache, main_locals, others, rng_draws>>

\* lines 105-106: the next i and its call, or the end of the loop
MwFibLoop ==
    /\ pc = "mw_fib_loop"
    /\ IF LoopContinues(mw_locals, FibCalls)
       THEN LET i == LoopNext(mw_locals)
                r == WorkloadFibCall(FibArgument(i), cache)
            IN  /\ trace' = Append(trace,
                       Called("fibonacci_recursive", FibArgument(i)))
                /\ cache' = r.cache
                /\ mw_locals' =
                       Bind(Bind(mw_locals, "i", i), "fib_results",
                            Append(mw_locals["fib_results"], r.ret))
                /\ pc' = "mw_fib_loop"
       ELSE /\ pc' = "mw_primes_marker"
            /\ UNCHANGED <<cache, mw_locals, trace>>
    /\ UNCHANGED <<main_locals, others, rng_draws>>

\* line 109
MwPrimesMarker ==
    /\ pc = "mw_primes_marker"
    /\ trace' = Append(trace, Printed("Computing prime numbers...", <<>>))
    /\ pc' = "mw_primes"
    /\ UNCHANGED <<cache, main_locals, mw_locals, others, rng_draws>>

\* line 110; an error raised by the call ends the process
MwPrimes ==
    /\ pc = "mw_primes"
    /\ trace' = Append(trace, Called("compute_primes", PrimeLimit))
    /\ IF WorkloadPrimes.raised
       THEN /\ pc' = "crashed"
            /\ UNCHANGED mw_locals
       ELSE /\ mw_locals' = Bind(mw_locals, "primes", WorkloadPrimes.value)
            /\ pc' = "mw_matrix_marker"
    /\ UNCHANGED <<cache, main_locals, others, rng_draws>>

\* line 113
MwMatrixMarker ==
    /\ pc = "mw_matrix_marker"
    /\ trace' = Append(trace,
           Printed("Performing matrix multiplication...", <<>>))
    /\ pc' = "mw_matrix"
    /\ UNCHANGED <<cache, main_locals, mw_locals, others, rng_draws>>

\* line 114
MwMatrix ==
    /\ pc = "mw_matrix"
    /\ trace' = Append(trace,
           Called("matrix_multiplication", WorkloadMatrixSize))
    /\ \E a \in RandomMatrices(WorkloadMatrixSize),
          b \in RandomMatrices(WorkloadMatrixSize) :
           mw_locals' = Bind(mw_locals, "matrix",
               matrix_multiplication(WorkloadMatrixSize, a, b))
    /\ rng_draws' = rng_draws + MatrixDraws(WorkloadMatrixSize)
    /\ pc' = "mw_string_marker"
    /\ UNCHANGED <<cache, main_locals, others>>

\* line 117
MwStringMarker ==
    /\ pc = "mw_string_marker"
    /\ trace' = Append(trace, Printed("Processing strings...", <<>>))
    /\ pc' = "mw_string"
    /\ UNCHANGED <<cache, main_locals, mw_locals, others, rng_draws>>

\* line 118
MwString ==
    /\ pc = "mw_string"
    /\ trace' = Append(trace, Called("string_processing", <<>>))
    /\ mw_locals' = Bind(mw_locals, "string_ops", string_processing)
    /\ pc' = "mw_json_marker"
    /\ UNCHANGED <<cache, main_locals, others, rng_draws>>

\* line 121
MwJsonMarker ==
    /\ pc = "mw_json_marker"
    /\ trace' = Append(trace, Printed("Processing JSON data...", <<>>))
    /\ pc' = "mw_json"
    /\ UNCHANGED <<cache, main_locals, mw_locals, others, rng_draws>>

\* line 122
MwJson ==
    /\ pc = "mw_json"
    /\ trace' = Append(trace, Called("json_processing", <<>>))
    /\ \E draws \in ScoreDraws :
           mw_locals' = Bind(mw_locals, "json_ops", json_processing(draws))
    /\ rng_draws' = rng_draws + JsonDraws
    /\ pc' = "mw_io_marker"
    /\ UNCHANGED <<cache, main_locals, others>>

\* line 125
MwIoMarker ==
    /\ pc = "mw_io_marker"
    /\ trace' = Append(trace, Printed("Simulating I/O operations...", <<>>))
    /\ pc' = "mw_io"
    /\ UNCHANGED <<cache, main_locals, mw_locals, others, rng_draws>>

\* line 126
MwIo ==
    /\ pc = "mw_io"
    /\ trace' = Append(trace, Called("io_simulation", <<>>))
    /\ mw_locals' = Bind(mw_locals, "io_result", io_simulation)
    /\ pc' = "mw_summary"
    /\ UNCHANGED <<cache, main_locals, others, rng_draws>>

\* lines 128-129, and the return: the frame of mixed_workload is gone
MwSummary ==
    /\ pc = "mw_summary"
    /\ trace' = Append(trace,
           Printed("Workload complete!", <<Len(mw_locals["primes"]),
                                           Len(mw_locals["fib_results"])>>))
    /\ mw_locals' = NoLocals
    /\ pc' = "main_cpu_marker"
    /\ UNCHANGED <<cache, main_locals, others, rng_draws>>

\* line 156
MainCpuMarker ==
    /\ pc = "main_cpu_marker"
    /\ trace' = Append(trace,
           Printed("Running CPU intensive calculations...", <<>>))
    /\ pc' = "main_cpu"
    /\ UNCHANGED <<cache, main_locals, mw_locals, others, rng_draws>>

\* line 157
MainCpu ==
    /\ pc = "main_cpu"
    /\ trace' = Append(trace, Called("cpu_intensive_loop", <<>>))
    /\ main_locals' = Bind(main_locals, "cpu_result", cpu_intensive_loop)
    /\ pc' = "main_loop"
    /\ UNCHANGED <<cache, mw_locals, others, rng_draws>>

\* line 159
MainEndClock ==
    /\ pc = "main_end_clock"
    /\ \E t \in Times : main_locals' = Bind(main_locals, "end_time", t)
    /\ pc' = "main_total"
    /\ UNCHANGED <<cache, mw_locals, trace, others, rng_draws>>

\* lines 161-163, and the return of main
MainTotal ==
    /\ pc = "main_total"
    /\ trace' = trace \o
           <<Printed("rule", <<>>),
             Printed("Total execution time",
                     <<main_locals["end_time"] - main_locals["start_time"]>>),
             Printed("rule", <<>>)>>
    /\ pc' = "done"
    /\ UNCHANGED <<cache, main_locals, mw_locals, others, rng_draws>>

NextMain ==
    \/ MainBanner \/ MainStartClock \/ MainLoopHead
    \/ MwStart \/ MwFibMarker \/ MwFibLoop
    \/ MwPrimesMarker \/ MwPrimes
    \/ MwMatrixMarker \/ MwMatrix
    \/ MwStringMarker \/ MwString
    \/ MwJsonMarker \/ MwJson
    \/ MwIoMarker \/ MwIo
    \/ MwSummary
    \/ MainCpuMarker \/ MainCpu
    \/ MainEndClock \/ MainTotal

SpecMain == InitMain /\ [][NextMain]_vars

\* The process is one thread that runs to completion: a statement that can
\* be executed is executed.
FairSpecMain == SpecMain /\ WF_vars(NextMain)

\* ================================================================ claims
\* The k-th Fibonacci number, by forward iteration of the pair (F(k), F(k+1)).
RECURSIVE FibPair(_)
FibPair(k) ==
    IF k = 0 THEN <<0, 1>>
    ELSE LET p == FibPair(k - 1) IN <<p[2], p[1] + p[2]>>
FibRef(k) == FibPair(k)[1]

IsPrime(p) == p >= 2 /\ \A d \in 2..(p - 1) : p % d # 0
RECURSIVE PrimesUpTo(_)
PrimesUpTo(limit) ==
    IF limit < 2 THEN <<>>
    ELSE PrimesUpTo(limit - 1) \o (IF IsPrime(limit) THEN <<limit>> ELSE <<>>)

\* C1: for every limit >= 0, compute_primes(limit) returns exactly the
\* primes p <= limit, each once, in ascending order (limit 30 gives
\* 2,3,5,7,11,13,17,19,23,29; limit 1 gives the empty list; limit 2 gives 2).
C1_PrimesExact ==
    last.fn = "compute_primes" =>
        /\ ~last.ret.raised
        /\ last.ret.value = PrimesUpTo(last.arg)
        /\ (last.arg = 30 =>
                last.ret.value = <<2, 3, 5, 7, 11, 13, 17, 19, 23, 29>>)
        /\ (last.arg = 1 => last.ret.value = <<>>)
        /\ (last.arg = 2 => last.ret.value = <<2>>)

\* C2: for every limit >= 0, limit = 0 included, a call of compute_primes
\* completes by returning a list: it raises no error.
C2_NoErrorPath ==
    last.fn = "compute_primes" => ~last.ret.raised /\ last.ret.error = ""

\* C3: for every n within the bound, fibonacci_cached(n) returns what
\* fibonacci_recursive(n) returns, whatever calls came before, and the value
\* returned by either is F(n) with F(0) = 0, F(1) = 1, F(n) = F(n-1) + F(n-2).
C3_FibonacciAgree ==
    last.fn \in {"fibonacci_recursive", "fibonacci_cached"} =>
        /\ last.ret = FibRecursiveValues[last.arg]
        /\ last.ret = FibRef(last.arg)
        /\ (last.arg = 0 => last.ret = 0)
        /\ (last.arg = 1 => last.ret = 1)
        /\ (last.arg >= 2 =>
                last.ret = FibRecursiveValues[last.arg - 1]
                           + FibRecursiveValues[last.arg - 2])

\* A memoized call with a large argument that found part of its range in
\* the cache left there by earlier calls.
C3_Witness ==
    /\ last.fn = "fibonacci_cached"
    /\ last.arg >= 20
    /\ last.runs > 0
    /\ last.runs < last.arg + 1

\* C6: the cache only grows: no step removes or overwrites a key, and a
\* fibonacci_cached call whose argument is already a key returns the stored
\* value without running the body and without changing the cache.
C6_CacheOnlyGrows ==
    [][ /\ \A k \in DOMAIN cache : k \in DOMAIN cache' /\ cache'[k] = cache[k]
        /\ (last'.fn = "fibonacci_cached" /\ last'.arg \in DOMAIN cache) =>
               /\ last'.ret = cache[last'.arg]
               /\ last'.runs = 0
               /\ cache' = cache
        /\ (last'.fn = "fibonacci_cached" /\ last'.runs > 1) =>
               last'.arg \notin DOMAIN cache ]_vars

\* A repeated call: the argument was a key already, and the cache is large.
C6_Witness ==
    /\ last.fn = "fibonacci_cached"
    /\ last.arg >= 2
    /\ last.runs = 0
    /\ Cardinality(DOMAIN cache) > last.arg + 1

\* C10: every cache entry maps its key k to the k-th Fibonacci number; a
\* call fibonacci_cached(n) adds only keys of 0..n that were absent; from an
\* empty cache, fibonacci_cached(n) with n >= 2 leaves exactly the keys 0..n.
C10_CacheContents ==
    [][ /\ \A k \in DOMAIN cache' : cache'[k] = FibRef(k)
        /\ last'.fn = "fibonacci_cached" =>
               /\ (DOMAIN cache' \ DOMAIN cache) \subseteq 0..last'.arg
               /\ DOMAIN cache \subseteq DOMAIN cache'
               /\ (cache = EmptyCache /\ last'.arg >= 2) =>
                      DOMAIN cache' = 0..last'.arg ]_vars

\* A first call with n >= 2 on the empty cache: every key of 0..n was a miss.
C10_Witness ==
    /\ last.fn = "fibonacci_cached"
    /\ last.arg >= 2
    /\ last.runs = last.arg + 1
    /\ DOMAIN cache = 0..last.arg


\* sum over k in 0..n-1 of a[i][k] * b[k][j], from the last term down
RECURSIVE DotRef(_, _, _, _, _)
DotRef(a, b, i, j, k) ==
    IF k < 0 THEN 0 ELSE a[i][k] * b[k][j] + DotRef(a, b, i, j, k - 1)

\* C7: matrix_multiplication(n), n positive, returns exactly n rows of exactly
\* n columns, cell [i][j] being the sum over k of a[i][k] * b[k][j] of the
\* two generated matrices; for n = 1 the cell is the product of the two cells.
C7_MatrixProduct ==
    last.fn = "matrix_multiplication" =>
        LET n == last.arg
            r == last.ret
        IN  /\ DOMAIN r = 0..(n - 1)
            /\ \A i \in 0..(n - 1) :
                   /\ DOMAIN r[i] = 0..(n - 1)
                   /\ \A j \in 0..(n - 1) :
                          r[i][j] = DotRef(matrix_a, matrix_b, i, j, n - 1)
            /\ (n = 1 => r[0][0] = matrix_a[0][0] * matrix_b[0][0])

\* A 2 x 2 product that is not symmetric, with a cell that sums two terms.
C7_Witness ==
    /\ last.fn = "matrix_multiplication"
    /\ last.arg = 2
    /\ last.ret[0][0] = 2
    /\ last.ret[0][1] # last.ret[1][0]


\* Record k (from 1) of a collection, and its fields.
RecordAt(d, k) == Lookup(d, KeyUsers).v[k]
SameFields(r1, r2) ==
    \A key \in {KeyId, KeyName, KeyEmail, KeyScores} :
        Lookup(r1, key) = Lookup(r2, key)

\* C8: json_processing builds records whose id is their list position, runs
\* exactly RoundTrips serialize-then-parse cycles and returns the record
\* count; each parsed copy has the record count and, in every record, the id,
\* name, email and scores of the original; no cycle changes the original.
C8_JsonRoundTrip ==
    /\ [](jpc # "start" =>
            /\ RecordCount(data) = NumUsers
            /\ \A k \in 1..NumUsers :
                   Lookup(RecordAt(data, k), KeyId) = PyInt(k - 1)
            /\ cycles <= RoundTrips
            /\ (cycles > 0 =>
                   /\ RecordCount(parsed) = RecordCount(data)
                   /\ \A k \in 1..NumUsers :
                          SameFields(RecordAt(parsed, k), RecordAt(data, k)))
            /\ (jpc = "done" =>
                   /\ cycles = RoundTrips
                   /\ last.fn = "json_processing"
                   /\ last.ret = NumUsers))
    /\ [][jpc = "loop" => data' = data]_vars

\* The call has returned after its cycles, on a collection whose scores have
\* texts of different lengths.
C8_Witness ==
    /\ jpc = "done"
    /\ cycles = RoundTrips
    /\ Lookup(RecordAt(parsed, 1), KeyScores) = PyList(<<PyInt(100)>>)
    /\ Lookup(RecordAt(parsed, 2), KeyScores) = PyList(<<PyInt(42)>>)
    /\ Lookup(RecordAt(parsed, 2), KeyName) = PyStr(<<"U", "s", "e", "r", "_", "1">>)

\* What an event is compared by: a printed line by its text (an iteration
\* header also by its numbers), a call by the routine called.
EventKey(e) ==
    IF e[2] = "iteration" THEN e ELSE <<e[1], e[2], <<>>>>
Keys(events) == [k \in 1..Len(events) |-> EventKey(events[k])]
IsPrefix(a, b) ==
    /\ Len(a) <= Len(b)
    /\ \A k \in 1..Len(a) : a[k] = b[k]
P(line) == <<"print", line, <<>>>>
C(fn) == <<"call", fn, <<>>>>

\* One pass of mixed_workload, as the claim orders it.
ExpectedPass ==
    <<P("Starting mixed workload..."),
      P("Computing Fibonacci numbers..."),
      C("fibonacci_recursive"), C("fibonacci_recursive"),
      C("fibonacci_recursive"), C("fibonacci_recursive"),
      C("fibonacci_recursive"),
      P("Computing prime numbers..."), C("compute_primes"),
      P("Performing matrix multiplication..."), C("matrix_multiplication"),
      P("Processing strings..."), C("string_processing"),
      P("Processing JSON data..."), C("json_processing"),
      P("Simulating I/O operations..."), C("io_simulation"),
      P("Workload complete!")>>

\* The events of the latest pass: from its first line to its summary line
\* (or to the end of the trace while the pass is running).
PassEvents ==
    LET starts == {k \in 1..Len(trace) :
                      trace[k] = Printed("Starting mixed workload...", <<>>)}
    IN  IF starts = {} THEN <<>>
        ELSE LET h    == CHOOSE k \in starts : \A m \in starts : m <= k
                 ends == {k \in h..Len(trace) :
                             trace[k][2] = "Workload complete!"}
                 e    == IF ends = {} THEN Len(trace)
                         ELSE CHOOSE k \in ends : \A m \in ends : k <= m
             IN  SubSeq(trace, h, e)

\* C4: one mixed_workload pass calls fibonacci_recursive exactly five times,
\* with 20, 21, 22, 23, 24 in that order, then compute_primes,
\* matrix_multiplication, string_processing, json_processing and
\* io_simulation once each in that order; each step's marker is printed
\* before the step's routine is called, and the summary line comes last.
C4_PassOrder ==
    /\ IsPrefix(Keys(PassEvents), ExpectedPass)
    /\ \A k \in 1..Len(PassEvents) :
           PassEvents[k][2] = "fibonacci_recursive" =>
               PassEvents[k][3] = 20 + (k - 3)
    /\ (pc \in {"main_cpu_marker", "main_cpu"} =>
           Keys(PassEvents) = ExpectedPass)

\* The second pass has printed its summary line.
C4_Witness ==
    /\ pc = "main_cpu_marker"
    /\ "i" \in DOMAIN main_locals
    /\ main_locals["i"] = 1
    /\ Len(PassEvents) = 18

\* One iteration of main, and the whole run, as the claim orders them.
ExpectedIteration(k) ==
    <<Printed("iteration", <<k, 3>>)>> \o ExpectedPass
    \o <<P("Running CPU intensive calculations..."), C("cpu_intensive_loop")>>
ExpectedRun ==
    <<P("rule"), P("title"), P("rule"), P("blank"), P("running")>>
    \o ExpectedIteration(1) \o ExpectedIteration(2) \o ExpectedIteration(3)
    \o <<P("rule"), P("Total execution time"), P("rule")>>

\* C5: main runs exactly 3 iterations, each a complete pass followed by one
\* cpu_intensive_loop call, under the headers 1/3, 2/3, 3/3 in order; the
\* total-time line is printed once, after the third iteration, and nothing
\* follows it; every run reaches termination.
C5_MainRuns ==
    /\ [](/\ IsPrefix(Keys(trace), ExpectedRun)
          /\ (pc = "done" => Keys(trace) = ExpectedRun))
    /\ <>(pc = "done")

\* main has returned, having read both clock values.
C5_Witness ==
    /\ pc = "done"
    /\ main_locals["i"] = 2
    /\ main_locals["end_time"] > main_locals["start_time"]
    /\ Len(trace) = Len(ExpectedRun)

\* C9: no routine leaves state behind for a later call except the
\* memoization cache: no step of main or mixed_workload changes anything
\* that outlives the call making it, the cache included, and at the start of
\* every iteration nothing of the routines' values is left, so that the
\* state at the start of an iteration differs from the state at the start
\* of the one before in nothing but that cache.
C9_NoStateLeftBehind ==
    /\ [][cache' = cache /\ rng_draws' = rng_draws]_vars
    /\ [](pc = "main_loop" =>
            /\ mw_locals = NoLocals
            /\ DOMAIN main_locals \subseteq
                   {"iterations", "start_time", "i", "cpu_result"}
            /\ main_locals["iterations"] = Iterations)

\* C9, amended: as above, except that matrix_multiplication and
\* json_processing advance the random module's shared generator, and
\* nothing else does.
C9_FrameEffect ==
    /\ [][cache' = cache]_vars
    /\ [][rng_draws' # rng_draws =>
            /\ pc \in {"mw_matrix", "mw_json"}
            /\ rng_draws' > rng_draws]_vars
    /\ [](pc = "main_loop" =>
            /\ mw_locals = NoLocals
            /\ DOMAIN main_locals \subseteq
                   {"iterations", "start_time", "i", "cpu_result"}
            /\ main_locals["iterations"] = Iterations)
    /\ [][(pc = "main_loop" /\ pc' = "mw_start") =>
            /\ main_locals'["start_time"] = main_locals["start_time"]
            /\ main_locals'["iterations"] = main_locals["iterations"]]_vars

\* The start of the second iteration, in a process whose cache is not
\* empty: the first iteration's draws have been made.
C9_Witness ==
    /\ pc = "main_loop"
    /\ "i" \in DOMAIN main_locals
    /\ main_locals["i"] = 0
    /\ cache # EmptyCache
    /\ rng_draws > 0
    /\ Len(trace) > 20

====
